---- MODULE Spec2Model ----
(***************************************************************************)
(* Model of ansible_navigator/configuration_subsystem/defs_presentable.py: *)
(* PresentableCliParameters.from_cli_params, PresentableSettingsEntry.get, *)
(* __lt__, for_settings_file and from_settings_entry.                      *)
(*                                                                         *)
(* Python lists are objects: a list lives in `heap` and a record field     *)
(* that holds a list holds its reference (an index of heap).  Strings the  *)
(* code transforms character by character (names, the application name)    *)
(* are sequences of code points; strings it only copies are TLA+ strings.  *)
(***************************************************************************)
EXTENDS Integers, Sequences, FiniteSets, TLC

VARIABLES
    heap,      \* the list objects: heap[r] is the content of list r
    records,   \* the presentable records returned so far, with each call's inputs
    args,      \* the inputs of the call a single-call run makes
    got,       \* outcome of the last compatibility-accessor call
    coll,      \* a collection of presentable entries handed to sorted()
    out,       \* what sorted(coll) returned
    changes,   \* how many times the caller has changed one of its lists
    mode       \* where the caller is

vars == <<heap, records, args, got, coll, out, changes, mode>>

----------------------------------------------------------------------------
(* Bounds of the model *)

MaxRecords == 3
MaxChanges == 1
MaxNameLen == 3
MaxColl == 3

----------------------------------------------------------------------------
(* Python values *)

\* Optional[str]: None or a string
PyNone == [none |-> TRUE, s |-> ""]
Some(s) == [none |-> FALSE, s |-> s]

\* truthiness of an Optional[str]: None and "" are falsy
Truthy(o) == ~o.none /\ o.s # ""

\* x or y, on Optional[str] x and a string y
PyOr(o, dflt) == IF Truthy(o) THEN o.s ELSE dflt

\* str(x): the string unchanged, "None" for None
PyStr(o) == IF o.none THEN "None" ELSE o.s

\* a settings value (PresentableSettingsEntryValue): here a str or a bool
StrVal(s) == [kind |-> "str", s |-> s, b |-> FALSE]
BoolVal(b) == [kind |-> "bool", s |-> "", b |-> b]
PyStrValue(v) == IF v.kind = "bool" THEN (IF v.b THEN "True" ELSE "False") ELSE v.s

----------------------------------------------------------------------------
(* Strings as code points: str.upper, str.lower, str.replace, str.capitalize, < *)

IsLowerCp(c) == c >= 97 /\ c <= 122
IsUpperCp(c) == c >= 65 /\ c <= 90
UpperCp(c) == IF IsLowerCp(c) THEN c - 32 ELSE c
LowerCp(c) == IF IsUpperCp(c) THEN c + 32 ELSE c

StrUpper(s) == [i \in 1..Len(s) |-> UpperCp(s[i])]

\* s.replace(old, new) for single characters
StrReplace(s, old, new) == [i \in 1..Len(s) |-> IF s[i] = old THEN new ELSE s[i]]

\* a mutant of str.capitalize: upper-cases the first character, keeps the rest
StrCapitalizeKeepRest(s) == [i \in 1..Len(s) |-> IF i = 1 THEN UpperCp(s[i]) ELSE s[i]]

\* s.capitalize(): first character upper-cased, every other character lower-cased
StrCapitalize(s) == [i \in 1..Len(s) |-> IF i = 1 THEN UpperCp(s[i]) ELSE LowerCp(s[i])]

\* s < t on str: lexicographic by code point, a proper prefix is smaller
StrLt(s, t) ==
    \E k \in 1..(Len(t)) :
        /\ \A i \in 1..(k - 1) : i <= Len(s) /\ s[i] = t[i]
        /\ \/ k = Len(s) + 1
           \/ k <= Len(s) /\ s[k] < t[k]

----------------------------------------------------------------------------
(* definitions.Constants: the members this module reads, and their .value *)

CValue(c) ==
    CASE c = "ALL" -> "All the things"
      [] c = "NONE" -> "None of the things"
      [] c = "NOT_SET" -> "value has not been set"
      [] c = "SEARCH_PATH" -> "Found using search path"
      [] c = "ENVIRONMENT_VARIABLE" -> "Environment variable"
      [] c = "DEFAULT_CFG" -> "Default configuration value"
      [] c = "USER_CFG" -> "User-provided configuration file"
      [] c = "USER_CLI" -> "User-provided at command line"

----------------------------------------------------------------------------
(* The shapes of the inputs *)

\* entry.cli_parameters: None, or a CliParameters with an optional short flag
NoCli == [present |-> FALSE, short |-> PyNone, long_override |-> PyNone]
Cli(short, long_override) == [present |-> TRUE, short |-> short, long_override |-> long_override]

\* entry.subcommands: a Constants member, or a list object
ScopeC(c) == [isC |-> TRUE, c |-> c, ref |-> 0]
ScopeList(r) == [isC |-> FALSE, c |-> "", ref |-> r]

\* entry.choices: a tuple (a value), or a list object
ChoicesTuple(items) == [isTuple |-> TRUE, items |-> items, ref |-> 0]
ChoicesList(r) == [isTuple |-> FALSE, items |-> <<>>, ref |-> r]

\* CliParameters.long(name_dashed): the override when set, else "--" + name_dashed
DashDash(name_dashed) ==
    CASE name_dashed = "mode" -> "--mode"
      [] name_dashed = "editor-console" -> "--editor-console"
      [] OTHER -> "--"

CliLong(cli, name_dashed) == PyOr(cli.long_override, DashDash(name_dashed))

\* "-" and "_" as code points, and the literal suffix "_CONFIG"
Underscore == 95
Space == 32
ConfigSuffix == <<95, 67, 79, 78, 70, 73, 71>>

\* SettingsEntry.environment_variable(prefix): f"{prefix}_{name}", upper-cased, "-" as "_"
EnvironmentVariable(entry, prefix) ==
    StrReplace(StrUpper(prefix \o <<Underscore>> \o entry.name), 45, Underscore)

\* SettingsEntry.settings_file_path(prefix): the dotted path of the entry in a settings file
SettingsFilePath(entry, prefix) == [prefix |-> prefix, name |-> entry.name]

\* utils.create_settings_file_sample(path, placeholder)
CreateSettingsFileSample(path, placeholder) ==
    [kind |-> "sample", text |-> "", path |-> path, placeholder |-> placeholder]

NotApplicable ==
    [kind |-> "str", text |-> "Not applicable",
     path |-> [prefix |-> <<>>, name |-> <<>>], placeholder |-> ""]

----------------------------------------------------------------------------
(* PresentableCliParameters *)

NO_LONG_MSG == "No long CLI parameter"
NO_SHORT_MSG == "No short CLI parameter"

\* cls(): both fields at their defaults
DefaultCliParameters == [long |-> NO_LONG_MSG, short |-> NO_SHORT_MSG]

\* mutant: the isinstance test dropped, the long flag always rendered
from_cli_params_always(cli_parameters, name_dashed) ==
    [long |-> CliLong(cli_parameters, name_dashed),
     short |-> PyOr(cli_parameters.short, NO_SHORT_MSG)]

from_cli_params(cli_parameters, name_dashed) ==
    IF cli_parameters.present
    THEN LET short == PyOr(cli_parameters.short, NO_SHORT_MSG)
             long == CliLong(cli_parameters, name_dashed)
         IN [long |-> long, short |-> short]
    ELSE DefaultCliParameters

----------------------------------------------------------------------------
(* PresentableSettingsEntry.for_settings_file *)

SettingsFileDescription ==
    "The path to the current settings file. Possible locations are {CWD}/ansible-navigator.{ext} or {HOME}/.ansible-navigator.{ext} where ext is yml, yaml or json."

\* "Current settings file"
CurrentSettingsFileName ==
    <<67, 117, 114, 114, 101, 110, 116, 32, 115, 101, 116, 116, 105, 110, 103, 115,
      32, 102, 105, 108, 101>>

\* mutant: default decided by the absence of a path rather than by the source tag
SettingsFileDefaultByPath(internals) == ~Truthy(internals.settings_file_path)

\* default=internals.settings_source is C.NONE
SettingsFileDefault(internals) == internals.settings_source = "NONE"

\* internals.settings_file_path or C.NONE.value
SettingsFileCurrent(internals) == PyOr(internals.settings_file_path, CValue("NONE"))

\* returns the record and the heap after the allocation of choices=[]
for_settings_file(h, all_subcommands, application_name, internals) ==
    LET h1 == Append(h, <<>>)
    IN [rec |->
           [choices |-> Len(h1),
            current_settings_file |-> SettingsFileCurrent(internals),
            current_value |-> StrVal(SettingsFileCurrent(internals)),
            default |-> SettingsFileDefault(internals),
            default_value |-> StrVal(CValue("NONE")),
            description |-> SettingsFileDescription,
            name |-> CurrentSettingsFileName,
            env_var |-> StrUpper(application_name) \o ConfigSuffix,
            settings_file_sample |-> NotApplicable,
            source |-> CValue(internals.settings_source),
            subcommands |-> all_subcommands,
            cli_parameters |-> DefaultCliParameters],
        heap |-> h1]

----------------------------------------------------------------------------
(* PresentableSettingsEntry.from_settings_entry *)

\* mutant: every Constants scope, C.ALL included, wrapped as [scope.value]
ResolveSubcommandsNoAll(h, all_subcommands, entry) ==
    IF entry.subcommands.isC
    THEN [ref |-> Len(h) + 1, heap |-> Append(h, <<CValue(entry.subcommands.c)>>)]
    ELSE [ref |-> entry.subcommands.ref, heap |-> h]

\* mutant: the one-element list is a shared list that every call appends to
ResolveSubcommandsShared(h, all_subcommands, entry) ==
    IF entry.subcommands.isC
    THEN IF entry.subcommands.c = "ALL"
         THEN [ref |-> all_subcommands, heap |-> h]
         ELSE LET earlier == {i \in 1..Len(records) :
                                 /\ records[i].inp.fn = "from_settings_entry"
                                 /\ records[i].inp.entry.subcommands.isC
                                 /\ records[i].inp.entry.subcommands.c # "ALL"}
              IN [ref |-> Len(h) + 1,
                  heap |-> Append(h, [i \in 1..(Cardinality(earlier) + 1) |->
                                         CValue(entry.subcommands.c)])]
    ELSE [ref |-> entry.subcommands.ref, heap |-> h]

\* the list the record's subcommands field refers to, and the heap after an allocation
ResolveSubcommands(h, all_subcommands, entry) ==
    IF entry.subcommands.isC
    THEN IF entry.subcommands.c = "ALL"
         THEN [ref |-> all_subcommands, heap |-> h]
         ELSE [ref |-> Len(h) + 1, heap |-> Append(h, <<CValue(entry.subcommands.c)>>)]
    ELSE [ref |-> entry.subcommands.ref, heap |-> h]

\* list(entry.choices): a new list with the items of the tuple or list
ListOfChoices(h, entry) ==
    LET items == IF entry.choices.isTuple THEN entry.choices.items ELSE h[entry.choices.ref]
    IN [ref |-> Len(h) + 1, heap |-> Append(h, items)]

\* mutant: the default flag recomputed by comparing the current and the default value
ResolvedFieldsRecomputed(entry) ==
    [current_value |-> entry.value.resolved.current,
     default |-> (entry.value.resolved.current = entry.value.resolved.default),
     default_value |-> entry.value.resolved.default]

\* current_value, default and default_value, from entry.value.resolved
ResolvedFields(entry) ==
    [current_value |-> entry.value.resolved.current,
     default |-> entry.value.resolved.is_default,
     default_value |-> entry.value.resolved.default]

\* entry.name.replace("_", " ").capitalize()
DisplayName(name) == StrCapitalize(StrReplace(name, Underscore, Space))

\* returns the record and the heap after the allocations
from_settings_entry(h, all_subcommands, application_name_dashed, entry, settings_file_path) ==
    LET cli_parameters == from_cli_params(entry.cli_parameters, entry.name_dashed)
        env_var == EnvironmentVariable(entry, application_name_dashed)
        resolved == ResolvedFields(entry)
        path == SettingsFilePath(entry, application_name_dashed)
        settings_file_sample == CreateSettingsFileSample(path, "<------")
        subcommands == ResolveSubcommands(h, all_subcommands, entry)
        choices == ListOfChoices(subcommands.heap, entry)
    IN [rec |->
           [choices |-> choices.ref,
            cli_parameters |-> cli_parameters,
            current_settings_file |-> PyStr(settings_file_path),
            current_value |-> resolved.current_value,
            default |-> resolved.default,
            default_value |-> resolved.default_value,
            description |-> entry.short_description,
            env_var |-> env_var,
            name |-> DisplayName(entry.name),
            settings_file_sample |-> settings_file_sample,
            source |-> CValue(entry.value.source),
            subcommands |-> subcommands.ref],
        heap |-> choices.heap]

----------------------------------------------------------------------------
(* PresentableSettingsEntry.get and .current *)

FieldNames == {"choices", "current_settings_file", "current_value", "default_value",
               "default", "description", "env_var", "name", "settings_file_sample",
               "source", "subcommands", "cli_parameters"}

\* the other attributes of an instance: the property, the methods, a dunder
PropertyNames == {"current"}
MethodNames == {"get", "for_settings_file", "from_settings_entry", "__lt__", "__class__"}

\* strings that name no attribute
UnknownNames == {"", "Name", "currentValue", "is_default", "missing"}

AttributeNames == FieldNames \cup PropertyNames \cup MethodNames \cup UnknownNames

\* self.current
Current(rec) == PyStrValue(rec.current_value)

\* the outcome of a call: a returned value, or a raised AttributeError
Returned(kind, attribute, value) ==
    [raised |-> FALSE, kind |-> kind, attribute |-> attribute, value |-> value]
Raised(attribute) ==
    [raised |-> TRUE, kind |-> "AttributeError", attribute |-> attribute, value |-> ""]
NotCalled == [raised |-> FALSE, kind |-> "not called", attribute |-> "", value |-> ""]

\* mutant: getattr with a default, so that an unknown name returns a value
GetWithDefault(rec, attribute) ==
    IF attribute \in DOMAIN rec THEN Returned("field", attribute, rec[attribute])
    ELSE IF attribute = "current" THEN Returned("property", attribute, Current(rec))
    ELSE IF attribute \in MethodNames THEN Returned("method", attribute, "bound method")
    ELSE Returned("default", attribute, "None")

\* getattr(self, attribute): which attribute is found, if any
Get(rec, attribute) ==
    IF attribute \in DOMAIN rec THEN Returned("field", attribute, rec[attribute])
    ELSE IF attribute = "current" THEN Returned("property", attribute, Current(rec))
    ELSE IF attribute \in MethodNames THEN Returned("method", attribute, "bound method")
    ELSE Raised(attribute)

----------------------------------------------------------------------------
(* PresentableSettingsEntry.__lt__ and sorted() *)

\* mutant: names compared without regard to case
LtIgnoreCase(a, b) ==
    StrLt([i \in 1..Len(a.name) |-> LowerCp(a.name[i])],
          [i \in 1..Len(b.name) |-> LowerCp(b.name[i])])

\* self.name < other.name
Lt(a, b) == StrLt(a.name, b.name)

\* x put into the sorted sequence s behind every element that is not greater than x
RECURSIVE InsertSorted(_, _)
InsertSorted(s, x) ==
    IF s = <<>> THEN <<x>>
    ELSE IF Lt(x, Head(s)) THEN <<x>> \o s
    ELSE <<Head(s)>> \o InsertSorted(Tail(s), x)

\* sorted(c): a stable sort that compares with __lt__ only
RECURSIVE Sorted(_)
Sorted(c) ==
    IF c = <<>> THEN <<>>
    ELSE InsertSorted(Sorted(SubSeq(c, 1, Len(c) - 1)), c[Len(c)])

----------------------------------------------------------------------------
(* The caller's objects *)

\* the list objects the caller owns: all_subcommands, an entry's explicit
\* subcommands list, an entry's choices list
AllSubcommandsRef == 1
EntrySubcommandsRef == 2
EntryChoicesRef == 3
CallerRefs == {AllSubcommandsRef, EntrySubcommandsRef, EntryChoicesRef}

\* "mode", "editor_console" and "ansible-navigator" style names, as code points
ModeName == <<109, 111, 100, 101>>
EditorConsoleName == <<101, 100, 105, 116, 111, 114, 95, 99, 111, 110, 115, 111, 108, 101>>
AppNames == {<<110, 97, 118>>, <<97, 45, 110>>}

Resolved(current, default, is_default) ==
    [current |-> current, default |-> default, is_default |-> is_default]

Entry(name, name_dashed, cli, choices, scope, resolved, source) ==
    [name |-> name, name_dashed |-> name_dashed, short_description |-> "A short description",
     cli_parameters |-> cli, choices |-> choices, subcommands |-> scope,
     value |-> [resolved |-> resolved, source |-> source]]

CliSet == {NoCli, Cli(PyNone, PyNone), Cli(Some(""), PyNone), Cli(Some("-m"), PyNone),
           Cli(Some("-m"), Some("--ee"))}

ScopeSet == {ScopeC("ALL"), ScopeC("NONE"), ScopeList(EntrySubcommandsRef)}

ChoicesSet == {ChoicesTuple(<<"x", "y">>), ChoicesList(EntryChoicesRef)}

ResolvedSet ==
    {Resolved(StrVal("a"), StrVal("a"), TRUE), Resolved(StrVal("a"), StrVal("a"), FALSE),
     Resolved(StrVal("b"), StrVal("a"), TRUE), Resolved(StrVal("b"), StrVal("a"), FALSE),
     Resolved(BoolVal(TRUE), BoolVal(FALSE), FALSE)}

NamePairs == {<<ModeName, "mode">>, <<EditorConsoleName, "editor-console">>}

\* every entry of a single-call run
EntrySet ==
    {Entry(n[1], n[2], cli, ch, sc, rv, "USER_CLI") :
        n \in NamePairs, cli \in CliSet, ch \in ChoicesSet, sc \in ScopeSet, rv \in ResolvedSet}

\* the entries of a run of several calls
SeveralEntries ==
    {Entry(ModeName, "mode", cli, ch, sc, Resolved(StrVal("b"), StrVal("a"), FALSE), "USER_CLI") :
        cli \in {Cli(Some("-m"), PyNone)}, ch \in ChoicesSet, sc \in ScopeSet}

PathSet == {PyNone, Some("/etc/ansible-navigator.yml")}

Internals(path, source) == [settings_file_path |-> path, settings_source |-> source]

InternalsSet ==
    {Internals(p, c) : p \in {PyNone, Some(""), Some("/etc/ansible-navigator.yml")},
                       c \in {"NONE", "NOT_SET", "SEARCH_PATH", "ENVIRONMENT_VARIABLE"}}

NoEntry == Entry(<<>>, "", NoCli, ChoicesTuple(<<>>), ScopeC("ALL"),
                 Resolved(StrVal(""), StrVal(""), TRUE), "NOT_SET")
NoInternals == Internals(PyNone, "NOT_SET")

\* the inputs of one call, with the content of the lists they refer to
Inputs(fn, h, application_name, entry, settings_file_path, internals) ==
    [fn |-> fn,
     all_subcommands |-> h[AllSubcommandsRef],
     application_name |-> application_name,
     entry |-> entry,
     entry_subcommands |-> IF entry.subcommands.isC THEN <<>> ELSE h[entry.subcommands.ref],
     entry_choices |-> IF entry.choices.isTuple THEN <<>> ELSE h[entry.choices.ref],
     settings_file_path |-> settings_file_path,
     internals |-> internals]

\* a record with its list fields replaced by the lists' content in heap h
Deref(rec, h) == [rec EXCEPT !.choices = h[rec.choices], !.subcommands = h[rec.subcommands]]

\* the call the inputs describe
Call(inp, h) ==
    IF inp.fn = "from_settings_entry"
    THEN from_settings_entry(h, AllSubcommandsRef, inp.application_name, inp.entry,
                             inp.settings_file_path)
    ELSE for_settings_file(h, AllSubcommandsRef, inp.application_name, inp.internals)

\* what is kept of a call: the inputs, the record, and the record's content on return
Logged(inp, r) == [inp |-> inp, rec |-> r.rec, val |-> Deref(r.rec, r.heap)]

----------------------------------------------------------------------------
(* A caller that makes several calls and changes its own lists in between *)

InitHeap == <<<<"run">>, <<"doc">>, <<"x">>>>

NoArgs == Inputs("none", InitHeap, <<>>, NoEntry, PyNone, NoInternals)

Init ==
    /\ heap = InitHeap
    /\ records = <<>>
    /\ args = NoArgs
    /\ got = NotCalled
    /\ coll = <<>>
    /\ out = <<>>
    /\ changes = 0
    /\ mode = "several"

\* record = PresentableSettingsEntry.from_settings_entry(...)
CallFromSettingsEntry ==
    /\ mode = "several"
    /\ Len(records) < MaxRecords
    /\ \E entry \in SeveralEntries :
          LET inp == Inputs("from_settings_entry", heap, <<110, 97, 118>>, entry,
                            Some("/etc/ansible-navigator.yml"), NoInternals)
              r == Call(inp, heap)
          IN /\ heap' = r.heap
             /\ records' = Append(records, Logged(inp, r))
    /\ UNCHANGED <<args, got, coll, out, changes, mode>>

\* record = PresentableSettingsEntry.for_settings_file(...)
CallForSettingsFile ==
    /\ mode = "several"
    /\ Len(records) < MaxRecords
    /\ \E internals \in {Internals(Some("/etc/ansible-navigator.yml"), "SEARCH_PATH")} :
          LET inp == Inputs("for_settings_file", heap, <<110, 97, 118>>, NoEntry,
                            PyNone, internals)
              r == Call(inp, heap)
          IN /\ heap' = r.heap
             /\ records' = Append(records, Logged(inp, r))
    /\ UNCHANGED <<args, got, coll, out, changes, mode>>

\* the caller appends to one of its lists
CallerAppend ==
    /\ mode = "several"
    /\ changes < MaxChanges
    /\ \E r \in CallerRefs :
          heap' = [heap EXCEPT ![r] = Append(@, "new")]
    /\ changes' = changes + 1
    /\ UNCHANGED <<records, args, got, coll, out, mode>>

\* the caller removes the last element of one of its lists
CallerRemove ==
    /\ mode = "several"
    /\ changes < MaxChanges
    /\ \E r \in CallerRefs :
          /\ Len(heap[r]) > 0
          /\ heap' = [heap EXCEPT ![r] = SubSeq(@, 1, Len(@) - 1)]
    /\ changes' = changes + 1
    /\ UNCHANGED <<records, args, got, coll, out, mode>>

Next == CallFromSettingsEntry \/ CallForSettingsFile \/ CallerAppend \/ CallerRemove

Spec == Init /\ [][Next]_vars

----------------------------------------------------------------------------
(* A single call on inputs drawn from the input sets, then one get *)

AllLists == {<<>>, <<"run">>, <<"run", "doc">>, <<"doc", "run">>}

InitCall ==
    /\ heap \in {<<all, <<"doc", "run">>, <<"x">>>> : all \in AllLists}
    /\ records = <<>>
    /\ args \in {Inputs("from_settings_entry", heap, <<97, 45, 110>>, entry, path, NoInternals) :
                    entry \in EntrySet, path \in PathSet}
            \cup {Inputs("for_settings_file", heap, app, NoEntry, PyNone, internals) :
                    app \in AppNames, internals \in InternalsSet}
    /\ got = NotCalled
    /\ coll = <<>>
    /\ out = <<>>
    /\ changes = 0
    /\ mode = "call"

ProjectEntry ==
    /\ mode = "call"
    /\ args.fn = "from_settings_entry"
    /\ LET r == Call(args, heap)
       IN /\ heap' = r.heap
          /\ records' = <<Logged(args, r)>>
    /\ mode' = "returned"
    /\ UNCHANGED <<args, got, coll, out, changes>>

ProjectSettingsFile ==
    /\ mode = "call"
    /\ args.fn = "for_settings_file"
    /\ LET r == Call(args, heap)
       IN /\ heap' = r.heap
          /\ records' = <<Logged(args, r)>>
    /\ mode' = "returned"
    /\ UNCHANGED <<args, got, coll, out, changes>>

\* record.get(attribute)
GetCall ==
    /\ mode = "returned"
    /\ \E attribute \in AttributeNames : got' = Get(records[1].rec, attribute)
    /\ mode' = "got"
    /\ UNCHANGED <<heap, records, args, coll, out, changes>>

NextCall == ProjectEntry \/ ProjectSettingsFile \/ GetCall

SpecCall == InitCall /\ [][NextCall]_vars

----------------------------------------------------------------------------
(* Names: the display name of an entry, and a collection sorted by name *)

NameAlphabet == {97, 122, 65, 90, 95, 49}

Names == UNION {[1..n -> NameAlphabet] : n \in 0..MaxNameLen}

Zebra == <<90, 101, 98, 114, 97>>
alpha == <<97, 108, 112, 104, 97>>
Beta == <<66, 101, 116, 97>>
Be == <<66, 101>>

Presentables ==
    {[name |-> n, description |-> d] : n \in {Zebra, alpha, Beta, Be}, d \in {"one", "two"}}

Collections == UNION {[1..n -> Presentables] : n \in 0..MaxColl}

InitNames ==
    /\ heap = InitHeap
    /\ records = <<>>
    /\ got = NotCalled
    /\ out = <<>>
    /\ changes = 0
    /\ \/ /\ mode = "call"
          /\ coll = <<>>
          /\ args \in {Inputs("from_settings_entry", heap, <<110, 97, 118>>,
                              Entry(n, "mode", NoCli, ChoicesTuple(<<>>), ScopeC("ALL"),
                                    Resolved(StrVal("a"), StrVal("a"), TRUE), "DEFAULT_CFG"),
                              PyNone, NoInternals) : n \in Names}
       \/ /\ mode = "sort"
          /\ coll \in Collections
          /\ args = NoArgs

\* out = sorted(coll)
CallSorted ==
    /\ mode = "sort"
    /\ out' = Sorted(coll)
    /\ mode' = "sorted"
    /\ UNCHANGED <<heap, records, args, got, coll, changes>>

NextNames == ProjectEntry \/ CallSorted

SpecNames == InitNames /\ [][NextNames]_vars

----------------------------------------------------------------------------
(* The claims *)

\* the logged calls of from_settings_entry and of for_settings_file
EntryCalls == {i \in 1..Len(records) : records[i].inp.fn = "from_settings_entry"}
FileCalls == {i \in 1..Len(records) : records[i].inp.fn = "for_settings_file"}

\* C1: the subcommands of a record projected by from_settings_entry never hold
\* the "all" sentinel; scope C.ALL gives all_subcommands (same elements, same
\* order), another Constants scope gives the one-element list of its value, and
\* an explicit list is given unchanged.
C1_SubcommandsResolved ==
    \A i \in EntryCalls :
        LET inp == records[i].inp
            scope == inp.entry.subcommands
            subs == records[i].val.subcommands
        IN /\ \A k \in 1..Len(subs) : subs[k] # CValue("ALL")
           /\ (scope.isC /\ scope.c = "ALL") => subs = inp.all_subcommands
           /\ (scope.isC /\ scope.c # "ALL") => subs = <<CValue(scope.c)>>
           /\ ~scope.isC => subs = inp.entry_subcommands

C1_Witness ==
    \E i \in EntryCalls :
        /\ records[i].inp.entry.subcommands = ScopeC("ALL")
        /\ records[i].inp.all_subcommands = <<"doc", "run">>
        /\ records[i].val.subcommands = <<"doc", "run">>

Respaced(name) == [k \in 1..Len(name) |-> IF name[k] = 95 THEN 32 ELSE name[k]]

\* C3 as stated: the display name is the entry name with each underscore
\* replaced by a space and the first character upper-cased, every other
\* character left as it was.
C3_RestKept ==
    \A i \in EntryCalls :
        LET name == Respaced(records[i].inp.entry.name)
        IN records[i].rec.name =
              [k \in 1..Len(name) |-> IF k = 1 THEN UpperCp(name[k]) ELSE name[k]]

\* C3 amended: the display name is the entry name with each underscore replaced
\* by a space, the first character upper-cased and every other character
\* lower-cased.
C3_RestLowered ==
    \A i \in EntryCalls :
        LET name == Respaced(records[i].inp.entry.name)
        IN records[i].rec.name =
              [k \in 1..Len(name) |-> IF k = 1 THEN UpperCp(name[k]) ELSE LowerCp(name[k])]

C3_Witness ==
    \E i \in EntryCalls :
        /\ records[i].inp.entry.name = <<97, 95, 90>>
        /\ records[i].rec.name = <<65, 32, 122>>

\* ordinal comparison of two strings, character by character from the front
RECURSIVE OrdinalLess(_, _)
OrdinalLess(s, t) ==
    IF t = <<>> THEN FALSE
    ELSE IF s = <<>> THEN TRUE
    ELSE \/ Head(s) < Head(t)
         \/ Head(s) = Head(t) /\ OrdinalLess(Tail(s), Tail(t))

NamesOf(c) == [k \in 1..Len(c) |-> c[k].name]

\* the elements of c that are named n, in their order in c
Named(c, n) == SelectSeq(c, LAMBDA e : e.name = n)

\* C4: a < b exactly when a.name is less than b.name in case-sensitive ordinal
\* order, whatever the other fields are; sorted() orders a collection by name,
\* "Zebra", "alpha", "Beta" as "Beta", "Zebra", "alpha", and keeps records of
\* equal name in their input order.
C4_OrderedByName ==
    /\ \A i, j \in 1..Len(coll) : Lt(coll[i], coll[j]) <=> OrdinalLess(coll[i].name, coll[j].name)
    /\ mode = "sorted" =>
          /\ Len(out) = Len(coll)
          /\ \A i, j \in 1..Len(out) : i < j => ~OrdinalLess(out[j].name, out[i].name)
          /\ \A k \in 1..Len(coll) : Named(out, coll[k].name) = Named(coll, coll[k].name)
          /\ NamesOf(coll) = <<Zebra, alpha, Beta>> => NamesOf(out) = <<Beta, Zebra, alpha>>

C4_Witness ==
    /\ mode = "sorted"
    /\ coll = <<[name |-> Zebra, description |-> "one"], [name |-> alpha, description |-> "two"],
                [name |-> Beta, description |-> "one"]>>
    /\ out = <<[name |-> Beta, description |-> "one"], [name |-> Zebra, description |-> "one"],
               [name |-> alpha, description |-> "two"]>>

C6_NoCliSentinels ==
    \A i \in EntryCalls :
        ~records[i].inp.entry.cli_parameters.present =>
            /\ records[i].rec.cli_parameters.long = "No long CLI parameter"
            /\ records[i].rec.cli_parameters.short = "No short CLI parameter"

C6_Witness ==
    \E i \in EntryCalls :
        /\ records[i].inp.entry.cli_parameters = NoCli
        /\ records[i].inp.entry.name_dashed = "editor-console"
        /\ records[i].rec.cli_parameters = DefaultCliParameters

\* C7 as stated: get(attribute) returns the field's value when attribute names
\* a declared field and fails for every other string.
C7_OnlyFields ==
    mode = "got" =>
        IF got.attribute \in FieldNames
        THEN ~got.raised /\ got.value = records[1].rec[got.attribute]
        ELSE got.raised

\* C7 amended: get(attribute) returns the field's value when attribute names a
\* declared field, returns the attribute when it names another attribute of the
\* record (the current property, a method, a class attribute), and fails for
\* every string that names no attribute: it never returns a default.
C7_OnlyAttributes ==
    mode = "got" =>
        /\ got.attribute \in FieldNames =>
              ~got.raised /\ got.value = records[1].rec[got.attribute]
        /\ got.attribute = "current" =>
              ~got.raised /\ got.value = PyStrValue(records[1].rec.current_value)
        /\ got.attribute \in MethodNames => ~got.raised
        /\ got.attribute \notin (FieldNames \cup PropertyNames \cup MethodNames) =>
              got.raised /\ got.kind = "AttributeError"

C7_Witness ==
    /\ mode = "got"
    /\ got.attribute = "current"
    /\ records[1].rec.current_value = BoolVal(TRUE)
    /\ got = Returned("property", "current", "True")

\* C8: two calls of from_settings_entry on the same entry with identical
\* all_subcommands, application name and settings file path return records
\* that are equal field for field, whatever was projected in between.
C8_SameInputsSameRecord ==
    \A i, j \in EntryCalls :
        records[i].inp = records[j].inp => records[i].val = records[j].val

C8_Witness ==
    \E i, j \in EntryCalls :
        /\ i + 1 < j
        /\ records[i].inp = records[j].inp
        /\ records[i + 1].inp # records[i].inp
        /\ records[i].inp.entry.subcommands = ScopeC("NONE")
        /\ records[i].val = records[j].val

\* C9: with cli_parameters present, long is the CLI parameters' rendering of the
\* dashed name and short is the declared short flag; short is the sentinel only
\* when no short flag is declared, not when the declared flag is "".
C9_ShortSentinelOnlyWhenUndeclared ==
    \A i \in EntryCalls :
        LET cli == records[i].inp.entry.cli_parameters
            shown == records[i].rec.cli_parameters
        IN cli.present =>
              /\ shown.long = CliLong(cli, records[i].inp.entry.name_dashed)
              /\ shown.short = IF cli.short.none THEN "No short CLI parameter" ELSE cli.short.s

\* C10: once a record is returned, no change the caller makes to the lists it
\* passed in changes a field of the record.
C10_RecordsKeepTheirFields ==
    \A i \in 1..Len(records) : Deref(records[i].rec, heap) = records[i].val

====
